---- MODULE Spec2Model ----
(***************************************************************************)
(* Model of the Ask Dad backend (src/server.js and its updated variant     *)
(* src/unnamed/part_000): the short-lived TTS cache, the periodic sweep,   *)
(* the three request handlers, the ElevenLabs streaming relay and the      *)
(* shaping of the text sent to it.                                         *)
(*                                                                         *)
(* JavaScript runs each handler to its next await without interruption,    *)
(* so every action below is one such run-to-completion segment.            *)
(***************************************************************************)
EXTENDS Integers, Sequences, FiniteSets, TLC

VARIABLES
    now,        \* Date.now(), in milliseconds
    env,        \* process.env: which vendor credentials are configured
    TTS_CACHE,  \* the Map id -> [payload, expiresAt]
    issued,     \* history: every id cacheTtsPayload returned, with its payload and time
    lastSweep,  \* history: Date.now() of the latest sweep, NoSweep before the first
    req,        \* the GET /tts-stream/:id request in flight and its response
    post,       \* the POST /ask-dad or /homework-help request in flight and its response
    speech      \* a text on its way through the speech text shaping

vars == <<now, env, TTS_CACHE, issued, lastSweep, req, post, speech>>

-----------------------------------------------------------------------------
(* Bounds of the model.                                                    *)

\* Date.now() when the process starts. Every instant of the model has the
\* same number of base-36 digits, as real timestamps do between 1972 and 2059.
Epoch == 100000
\* The clock is sampled every half TTL: at Epoch + k * (TTS_TTL_MS / 2), k <= MaxHalves.
\* An entry then meets instants before, exactly at and after its expiry.
MaxHalves == 3
\* Calls of cacheTtsPayload in one run.
MaxStores == 2
\* Calls of cacheTtsPayload in one run of LiveSpec.
MaxLiveStores == 1

-----------------------------------------------------------------------------
(* Program constants.                                                      *)

TTS_TTL_MS == 10 * 60 * 1000

\* lastSweep before the first sweep: an instant the clock never shows.
NoSweep == Epoch - 1

\* Math.random().toString(36).slice(2) for Math.random() = 0.5 and 0.25.
\* Math.random() promises no two different results.
RandomStrings == {<<"i">>, <<"9">>}

\* Payloads handed to cacheTtsPayload: {text, mode}.
Payloads ==
    {[text |-> <<"H","i",".">>, mode |-> "default"],
     [text |-> <<"1",")"," ","g","o">>, mode |-> "homework"]}

HalfTtl == TTS_TTL_MS \div 2

-----------------------------------------------------------------------------
(* makeId                                                                  *)

Digits36 ==
    <<"0","1","2","3","4","5","6","7","8","9","a","b","c","d","e","f","g","h",
      "i","j","k","l","m","n","o","p","q","r","s","t","u","v","w","x","y","z">>

\* Number.prototype.toString(36) of a non-negative integer.
RECURSIVE ToString36(_)
ToString36(n) ==
    IF n < 36 THEN <<Digits36[n + 1]>>
    ELSE ToString36(n \div 36) \o <<Digits36[(n % 36) + 1]>>

\* makeId with Math.random().toString(36).slice(2) = r at time t.
makeId(r, t) == r \o ToString36(t)

-----------------------------------------------------------------------------
(* cacheTtsPayload                                                         *)

\* TTS_CACHE.set(id, { payload, expiresAt: Date.now() + TTS_TTL_MS })
CacheSet(cache, id, payload, t) ==
    [k \in (DOMAIN cache) \cup {id} |->
        IF k = id THEN [payload |-> payload, expiresAt |-> t + TTS_TTL_MS]
        ELSE cache[k]]

\* The body of cacheTtsPayload, with Math.random().toString(36).slice(2) = r.
Cached(payload, r) ==
    LET id == makeId(r, now) IN
        /\ TTS_CACHE' = CacheSet(TTS_CACHE, id, payload, now)
        /\ issued' = Append(issued, [id |-> id, payload |-> payload, at |-> now])

\* A handler reaches cacheTtsPayload with an answer to store.
cacheTtsPayload(payload, r) ==
    /\ Len(issued) < MaxStores
    /\ Cached(payload, r)
    /\ UNCHANGED <<now, env, lastSweep, req, post, speech>>

-----------------------------------------------------------------------------
(* The sweep timer                                                         *)

\* The test of the sweep's if: !v || v.expiresAt < now. Every value the
\* code stores is an object, so !v is false.
SweepDeletesInclusive(v, t) == v.expiresAt <= t
SweepDeletesInverted(v, t) == v.expiresAt > t
SweepDeletes(v, t) == v.expiresAt < t

Swept(cache, t) ==
    [k \in {x \in DOMAIN cache : ~SweepDeletes(cache[x], t)} |-> cache[k]]

Sweep ==
    /\ TTS_CACHE' = Swept(TTS_CACHE, now)
    /\ lastSweep' = now
    /\ UNCHANGED <<now, env, issued, req, post, speech>>

-----------------------------------------------------------------------------
(* The clock                                                               *)

Tick ==
    /\ now + HalfTtl <= Epoch + MaxHalves * HalfTtl
    /\ now' = now + HalfTtl
    /\ UNCHANGED <<env, TTS_CACHE, issued, lastSweep, req, post, speech>>

-----------------------------------------------------------------------------
(* GET /tts-stream/:id and streamElevenLabsTTS                             *)

NoReq ==
    [pc |-> "idle", id |-> <<>>, found |-> "none", text |-> <<>>, mode |-> "",
     status |-> 0, body |-> "none", speechRequests |-> 0, audioHeaders |-> FALSE,
     ended |-> FALSE, failure |-> "none", caught |-> "none"]

\* payload.mode || "default"; payload.text || "" leaves every string as it is.
ModeOrDefault(m) == IF m = "" THEN "default" ELSE m

\* TTS_CACHE.get(id) followed by if (!entry)
LookupHit(cache, id, t) == id \in DOMAIN cache

\* The ids a client may present: every id handed out so far and the ids
\* makeId could hand out now.
RequestIds == {issued[i].id : i \in 1..Len(issued)} \cup {makeId(r, now) : r \in RandomStrings}

\* GetTtsStream with a lookup that uses the entry up: TTS_CACHE.delete(id)
\* after a hit.
GetTtsStreamConsumes(id) ==
    /\ req.pc \in {"idle", "done"}
    /\ IF ~LookupHit(TTS_CACHE, id, now)
       THEN /\ req' = [NoReq EXCEPT !.pc = "done", !.id = id, !.found = "absent",
                                    !.status = 404, !.body = "text", !.ended = TRUE]
            /\ TTS_CACHE' = TTS_CACHE
       ELSE LET entry == TTS_CACHE[id]
                seen == [NoReq EXCEPT
                            !.id = id,
                            !.found = IF entry.expiresAt <= now THEN "expired" ELSE "live",
                            !.text = entry.payload.text,
                            !.mode = ModeOrDefault(entry.payload.mode)]
            IN  /\ TTS_CACHE' = [k \in (DOMAIN TTS_CACHE) \ {id} |-> TTS_CACHE[k]]
                /\ IF ~env.eleven
                   THEN req' = [seen EXCEPT !.pc = "done", !.status = 500, !.body = "json",
                                            !.ended = TRUE]
                   ELSE req' = [seen EXCEPT !.pc = "fetch", !.speechRequests = 1]
    /\ UNCHANGED <<now, env, issued, lastSweep, post, speech>>

\* The handler up to its first await: the lookup, and in streamElevenLabsTTS
\* the credential check and the fetch being issued.
GetTtsStream(id) ==
    /\ req.pc \in {"idle", "done"}
    /\ IF ~LookupHit(TTS_CACHE, id, now)
       THEN req' = [NoReq EXCEPT !.pc = "done", !.id = id, !.found = "absent",
                                 !.status = 404, !.body = "text", !.ended = TRUE]
       ELSE LET entry == TTS_CACHE[id]
                seen == [NoReq EXCEPT
                            !.id = id,
                            !.found = IF entry.expiresAt <= now THEN "expired" ELSE "live",
                            !.text = entry.payload.text,
                            !.mode = ModeOrDefault(entry.payload.mode)]
            IN  IF ~env.eleven
                THEN req' = [seen EXCEPT !.pc = "done", !.status = 500, !.body = "json",
                                         !.ended = TRUE]
                ELSE req' = [seen EXCEPT !.pc = "fetch", !.speechRequests = 1]
    /\ UNCHANGED <<now, env, TTS_CACHE, issued, lastSweep, post, speech>>

\* await fetch(elevenUrl, ...) settles.
FetchSettles ==
    /\ req.pc = "fetch"
    /\ \/ \* fetch rejects: caught by the try around it
          req' = [req EXCEPT !.pc = "done", !.status = 500, !.body = "json",
                             !.ended = TRUE, !.failure = "fetch", !.caught = "inner"]
       \/ \* the vendor answers with a non-success status
          req' = [req EXCEPT !.pc = "errText", !.failure = "vendorStatus"]
       \/ \* success, Readable.fromWeb works: the headers are set and the body is piped
          req' = [req EXCEPT !.pc = "streaming", !.audioHeaders = TRUE]
       \/ \* success, Readable.fromWeb throws: caught by the try around it
          req' = [req EXCEPT !.pc = "done", !.audioHeaders = TRUE, !.status = 500,
                             !.body = "json", !.ended = TRUE,
                             !.failure = "fromWeb", !.caught = "inner"]
    /\ UNCHANGED <<now, env, TTS_CACHE, issued, lastSweep, post, speech>>

\* await tts.text() settles, after a non-success status.
ErrTextSettles ==
    /\ req.pc = "errText"
    /\ \/ req' = [req EXCEPT !.pc = "done", !.status = 500, !.body = "json",
                             !.ended = TRUE, !.caught = "inner"]
       \/ \* tts.text() rejects outside every try of streamElevenLabsTTS; the
          \* handler returned the promise without awaiting it, so its catch is
          \* not on the path. Express 4 drops the rejection (no response); Express 5
          \* hands it to its default error handler (500, HTML).
          \E framework \in {"dropped", "default500"} :
            req' = [req EXCEPT !.pc = "done", !.failure = "errText", !.caught = "uncaught",
                               !.status = IF framework = "default500" THEN 500 ELSE 0,
                               !.body = IF framework = "default500" THEN "html" ELSE "none",
                               !.ended = (framework = "default500")]
    /\ UNCHANGED <<now, env, TTS_CACHE, issued, lastSweep, post, speech>>

\* StreamSettles with an "error" listener that answers res.status(500).json(...).
StreamSettlesWritesError ==
    /\ req.pc = "streaming"
    /\ \/ req' = [req EXCEPT !.pc = "done", !.status = 200, !.body = "audio", !.ended = TRUE]
       \/ req' = [req EXCEPT !.pc = "done", !.status = 500, !.body = "json", !.ended = TRUE,
                             !.failure = "stream", !.caught = "inner"]
    /\ UNCHANGED <<now, env, TTS_CACHE, issued, lastSweep, post, speech>>

\* The piped vendor stream ends or errors.
StreamSettles ==
    /\ req.pc = "streaming"
    /\ \/ req' = [req EXCEPT !.pc = "done", !.status = 200, !.body = "audio", !.ended = TRUE]
       \/ \* the "error" listener: res.end()
          req' = [req EXCEPT !.pc = "done", !.status = 200, !.body = "audio", !.ended = TRUE,
                             !.failure = "stream", !.caught = "inner"]
    /\ UNCHANGED <<now, env, TTS_CACHE, issued, lastSweep, post, speech>>


-----------------------------------------------------------------------------
(* Strings: a string is the sequence of its UTF-16 code units              *)

UpperCase ==
    <<"A","B","C","D","E","F","G","H","I","J","K","L","M","N","O","P","Q","R","S","T",
      "U","V","W","X","Y","Z">>
LowerCase ==
    <<"a","b","c","d","e","f","g","h","i","j","k","l","m","n","o","p","q","r","s","t",
      "u","v","w","x","y","z">>
Range(f) == {f[i] : i \in DOMAIN f}

\* \s and \w of a JavaScript regular expression, on the characters in use.
IsSpace(c) == c \in {" ", "\t", "\n", "\r"}
IsWord(c) ==
    c \in Range(UpperCase) \cup Range(LowerCase) \cup {"_"}
        \cup {"0","1","2","3","4","5","6","7","8","9"}

\* String.prototype.toLowerCase, one character.
LowerChar(c) ==
    IF c \in Range(UpperCase)
    THEN LowerCase[CHOOSE i \in 1..26 : UpperCase[i] = c]
    ELSE c
toLowerCase(s) == [i \in 1..Len(s) |-> LowerChar(s[i])]

\* String.prototype.trim
RECURSIVE TrimStart(_)
TrimStart(s) == IF s # <<>> /\ IsSpace(Head(s)) THEN TrimStart(Tail(s)) ELSE s
RECURSIVE TrimEnd(_)
TrimEnd(s) ==
    IF s # <<>> /\ IsSpace(s[Len(s)]) THEN TrimEnd(SubSeq(s, 1, Len(s) - 1)) ELSE s
Trim(s) == TrimEnd(TrimStart(s))

\* .replace(/[’']/g, "'")
StraightQuote(c) == IF c \in {"U+2019", "'"} THEN "'" ELSE c
StraightQuotes(s) == [i \in 1..Len(s) |-> StraightQuote(s[i])]
\* .replace(/[^\w\s]/g, "")
KeepsWordOrSpace(c) == IsWord(c) \/ IsSpace(c)
\* .replace(/\s+/g, " ")
RECURSIVE CollapseSpaces(_)
CollapseSpaces(s) ==
    IF s = <<>> THEN <<>>
    ELSE IF IsSpace(Head(s))
         THEN <<" ">> \o CollapseSpaces(TrimStart(s))
         ELSE <<Head(s)>> \o CollapseSpaces(Tail(s))

normalize(s) ==
    Trim(CollapseSpaces(SelectSeq(StraightQuotes(toLowerCase(s)), KeepsWordOrSpace)))

isRepeatedJoke(joke, history) ==
    LET j == normalize(joke) IN \E i \in 1..Len(history) : normalize(history[i]) = j

\* a || b on strings
OrText(a, b) == IF a = <<>> THEN b ELSE a

(* The texts the code answers with when the generator gave none.           *)

\* callOpenAIChat, callOpenAIResponses: no OPENAI_API_KEY is configured
MISSING_KEY ==
    <<"M","i","s","s","i","n","g"," ","O","P","E","N","A","I","_","A","P","I","_","K",
      "E","Y"," ","o","n"," ","b","a","c","k","e","n","d",".">>

\* callOpenAIChat: the vendor's status is not a success
CHAT_BUSY ==
    <<"D","a","d"," ","b","r","a","i","n"," ","i","s"," ","b","u","s","y"," ","r","i",
      "g","h","t"," ","n","o","w","."," ","T","r","y"," ","a","g","a","i","n"," ","i",
      "n"," ","a"," ","m","i","n","u","t","e",".">>

\* callOpenAIChat: the completion holds no text
CHAT_BLANK ==
    <<"U+2026","D","a","d"," ","b","l","a","n","k","e","d","."," ","T","r","y"," ",
      "a","g","a","i","n",".">>

\* getDadAnswer: the joke is empty
JOKE_GLITCH ==
    <<"M","y"," ","j","o","k","e"," ","d","r","a","w","e","r"," ","g","l","i","t","c",
      "h","e","d","U+2026"," ","h","i","t"," ","m","e"," ","a","g","a","i","n"," ",
      "U+D83D","U+DE04">>

\* getDadAnswer: the canned fallback after the last attempt
JOKE_STUCK ==
    <<"A","l","r","i","g","h","t"," ","k","i","d","d","o","U+2026"," ","m","y"," ",
      "j","o","k","e"," ","d","r","a","w","e","r","U+2019","s"," ","s","t","u","c",
      "k","."," ","T","r","y"," ","a","g","a","i","n"," ","U+D83D","U+DE05">>

\* callOpenAIResponses: the vendor's status is not a success
HOMEWORK_BUSY ==
    <<"H","o","m","e","w","o","r","k"," ","D","a","d"," ","i","s"," ","b","u","s","y",
      " ","r","i","g","h","t"," ","n","o","w","."," ","T","r","y"," ","a","g","a","i",
      "n"," ","i","n"," ","a"," ","m","i","n","u","t","e",".">>

\* callOpenAIResponses: the response holds no text
HOMEWORK_UNREAD ==
    <<"I"," ","c","o","u","l","d","n","U+2019","t"," ","r","e","a","d"," ","t","h",
      "a","t"," ","c","l","e","a","r","l","y","U+2014","t","r","y"," ","a"," ","b",
      "r","i","g","h","t","e","r",","," ","c","l","o","s","e","r"," ","p","h","o","t",
      "o",".">>

\* getHomeworkHelp: the text is empty
HOMEWORK_RETAKE ==
    <<"I"," ","c","o","u","l","d","n","U+2019","t"," ","r","e","a","d"," ","t","h",
      "a","t"," ","c","l","e","a","r","l","y","U+2014","t","r","y"," ","a"," ","c",
      "l","o","s","e","r"," ","p","h","o","t","o"," ","w","i","t","h"," ","b","e","t",
      "t","e","r"," ","l","i","g","h","t","i","n","g",".">>

-----------------------------------------------------------------------------
(* Speech text shaping: humanCadenceText, and ttsFriendly in the updated    *)
(* variant                                                                 *)

\* Longest text handed to the shaping.
MaxLen == 4

\* [ \t], \d and [\)\.\:] of the regular expressions below.
IsBlank(c) == c \in {" ", "\t"}
IsDigit(c) == c \in {"0","1","2","3","4","5","6","7","8","9"}
IsListMark(c) == c \in {")", ".", ":"}
IsStop(c) == c \in {".", "!", "?"}

\* The first index from i on that holds no \s character (Len(s) + 1 if none).
RECURSIVE SkipSpaces(_, _)
SkipSpaces(s, i) == IF i <= Len(s) /\ IsSpace(s[i]) THEN SkipSpaces(s, i + 1) ELSE i
\* The first index from i on that holds no digit.
RECURSIVE SkipDigits(_, _)
SkipDigits(s, i) == IF i <= Len(s) /\ IsDigit(s[i]) THEN SkipDigits(s, i + 1) ELSE i
\* The first index from i on that holds no blank, no newline.
RECURSIVE SkipBlanks(_, _)
SkipBlanks(s, i) == IF i <= Len(s) /\ IsBlank(s[i]) THEN SkipBlanks(s, i + 1) ELSE i
RECURSIVE SkipNewlines(_, _)
SkipNewlines(s, i) == IF i <= Len(s) /\ s[i] = "\n" THEN SkipNewlines(s, i + 1) ELSE i

\* \b in front of the word character at i: no word character before it.
WordStartsAt(s, i) == i = 1 \/ ~IsWord(s[i - 1])

\* .replace(/\r/g, "")
IsNotReturn(c) == c # "\r"
DropReturns(s) == SelectSeq(s, IsNotReturn)

\* .replace(/[ \t]{2,}/g, " "), from index i on
RECURSIVE SqueezeBlanks(_, _)
SqueezeBlanks(s, i) ==
    IF i > Len(s) THEN <<>>
    ELSE IF SkipBlanks(s, i) >= i + 2
         THEN <<" ">> \o SqueezeBlanks(s, SkipBlanks(s, i))
         ELSE <<s[i]>> \o SqueezeBlanks(s, i + 1)

\* .replace(/\n{k,}/g, to), from index i on
RECURSIVE SqueezeNewlines(_, _, _, _)
SqueezeNewlines(s, i, k, to) ==
    IF i > Len(s) THEN <<>>
    ELSE IF SkipNewlines(s, i) >= i + k
         THEN to \o SqueezeNewlines(s, SkipNewlines(s, i), k, to)
         ELSE <<s[i]>> \o SqueezeNewlines(s, i + 1, k, to)

\* .replace(/\n/g, ". ")
RECURSIVE NewlinesToStops(_)
NewlinesToStops(s) ==
    IF s = <<>> THEN <<>>
    ELSE (IF Head(s) = "\n" THEN <<".", " ">> ELSE <<Head(s)>>) \o NewlinesToStops(Tail(s))

\* .replace(/\bd[\)\.\:]\s*/g, word) for the digit d, from index i on
RECURSIVE ListWord(_, _, _, _)
ListWord(s, i, d, word) ==
    IF i > Len(s) THEN <<>>
    ELSE IF s[i] = d /\ WordStartsAt(s, i) /\ i < Len(s) /\ IsListMark(s[i + 1])
         THEN word \o ListWord(s, SkipSpaces(s, i + 2), d, word)
         ELSE <<s[i]>> \o ListWord(s, i + 1, d, word)

\* .replace(/([.!?])\s+/g, "$1" + gap), from index i on
RECURSIVE StopGap(_, _, _)
StopGap(s, i, gap) ==
    IF i > Len(s) THEN <<>>
    ELSE IF IsStop(s[i]) /\ i < Len(s) /\ IsSpace(s[i + 1])
         THEN <<s[i]>> \o gap \o StopGap(s, SkipSpaces(s, i + 1), gap)
         ELSE <<s[i]>> \o StopGap(s, i + 1, gap)

\* .replace(/,\s+/g, ", ... "), from index i on
RECURSIVE CommaPause(_, _)
CommaPause(s, i) ==
    IF i > Len(s) THEN <<>>
    ELSE IF s[i] = "," /\ i < Len(s) /\ IsSpace(s[i + 1])
         THEN <<",", " ", ".", ".", ".", " ">> \o CommaPause(s, SkipSpaces(s, i + 1))
         ELSE <<s[i]>> \o CommaPause(s, i + 1)

\* if (t.length > n) t = t.slice(0, n)
Slice(t, n) == IF Len(t) > n THEN SubSeq(t, 1, n) ELSE t

CadenceBudget == 1800

\* humanCadenceText of src/server.js
humanCadenceText(input) ==
    LET t1 == Trim(input)
        t2 == SqueezeBlanks(DropReturns(t1), 1)
        t3 == NewlinesToStops(SqueezeNewlines(t2, 1, 2, <<"\n">>))
        t4 == ListWord(t3, 1, "1", <<"F","i","r","s","t",":"," ">>)
        t5 == ListWord(t4, 1, "2", <<"N","e","x","t",":"," ">>)
        t6 == ListWord(t5, 1, "3", <<"T","h","e","n",":"," ">>)
        t7 == ListWord(t6, 1, "4", <<"A","f","t","e","r"," ","t","h","a","t",":"," ">>)
        t8 == ListWord(t7, 1, "5", <<"F","i","n","a","l","l","y",":"," ">>)
        t9 == StopGap(t8, 1, <<" ", ".", ".", ".", " ">>)
        t10 == CommaPause(t9, 1)
    IN  Trim(Slice(t10, CadenceBudget))

\* ttsFriendly: what one character is replaced by. No replacement holds a
\* character a later .replace looks for, so the chain acts on each character
\* of the input by itself.
SpokenSymbol(c) ==
    CASE c \in {"U+00D7", "*"} -> <<" ","t","i","m","e","s"," ">>
      [] c = "=" -> <<" ","e","q","u","a","l","s"," ">>
      [] c = "+" -> <<" ","p","l","u","s"," ">>
      [] c = "/" -> <<" ","d","i","v","i","d","e","d"," ","b","y"," ">>
      [] c = "<" -> <<" ","l","e","s","s"," ","t","h","a","n"," ">>
      [] c = ">" -> <<" ","g","r","e","a","t","e","r"," ","t","h","a","n"," ">>
      [] c = "U+2264" ->
            <<" ","l","e","s","s"," ","t","h","a","n"," ","o","r"," ","e","q","u","a","l",
              " ","t","o"," ">>
      [] c = "U+2265" ->
            <<" ","g","r","e","a","t","e","r"," ","t","h","a","n"," ","o","r"," ","e","q",
              "u","a","l"," ","t","o"," ">>
      [] c = "^" -> <<" ","t","o"," ","t","h","e"," ","p","o","w","e","r"," ","o","f"," ">>
      [] c = "%" -> <<" ","p","e","r","c","e","n","t"," ">>
      [] OTHER -> <<c>>

RECURSIVE ttsFriendly(_)
ttsFriendly(text) ==
    IF text = <<>> THEN <<>> ELSE SpokenSymbol(Head(text)) \o ttsFriendly(Tail(text))

\* .replace(/\b(\d+)[\)\.\:]\s+/g, "Step $1: "), from index i on
RECURSIVE StepMarks(_, _)
StepMarks(s, i) ==
    IF i > Len(s) THEN <<>>
    ELSE LET j == SkipDigits(s, i) IN
         IF /\ IsDigit(s[i]) /\ WordStartsAt(s, i)
            /\ j < Len(s) /\ IsListMark(s[j]) /\ IsSpace(s[j + 1])
         THEN <<"S","t","e","p"," ">> \o SubSeq(s, i, j - 1) \o <<":", " ">>
                \o StepMarks(s, SkipSpaces(s, j + 1))
         ELSE <<s[i]>> \o StepMarks(s, i + 1)

CadenceBudgetUpdated == 1700

\* humanCadenceText of src/unnamed/part_000
humanCadenceTextUpdated(input) ==
    LET t1 == Trim(input)
        t2 == SqueezeBlanks(DropReturns(t1), 1)
        t3 == SqueezeNewlines(t2, 1, 3, <<"\n", "\n">>)
        t4 == StepMarks(t3, 1)
        t5 == StopGap(t4, 1, <<" ">>)
    IN  Trim(Slice(t5, CadenceBudgetUpdated))

\* The text streamElevenLabsTTS sends to the vendor: dadText in src/server.js,
\* prepared in src/unnamed/part_000.
Variants == {"server.js", "part_000"}
shape(variant, text) ==
    IF variant = "server.js" THEN humanCadenceText(text)
    ELSE humanCadenceTextUpdated(ttsFriendly(text))

\* The characters of the texts shaped here: a digit, list markers, sentence
\* punctuation, a comma, white space, a letter and math symbols.
Alphabet == {"1", ")", ".", ",", " ", "\n", "a", "="}
Texts == UNION {[1..n -> Alphabet] : n \in 0..MaxLen}

NoSpeech == [pc |-> "idle", variant |-> "", input |-> <<>>, once |-> <<>>, twice |-> <<>>]

\* The text is shaped, as streamElevenLabsTTS does before its request.
ShapeOnce ==
    /\ speech.pc = "input"
    /\ speech' = [speech EXCEPT !.pc = "once", !.once = shape(speech.variant, speech.input)]
    /\ UNCHANGED <<now, env, TTS_CACHE, issued, lastSweep, req, post>>

\* The shaped text is shaped again.
ShapeAgain ==
    /\ speech.pc = "once"
    /\ speech' = [speech EXCEPT !.pc = "twice", !.twice = shape(speech.variant, speech.once)]
    /\ UNCHANGED <<now, env, TTS_CACHE, issued, lastSweep, req, post>>

-----------------------------------------------------------------------------
(* POST /ask-dad and POST /homework-help                                   *)

\* for (let attempt = 1; attempt <= 4; attempt++)
JokeAttempts == 4
LoopContinuesOneMore(attempt) == attempt <= JokeAttempts + 1
LoopContinues(attempt) == attempt <= JokeAttempts

\* express.json({ limit: "8mb" }); the smallest body around an image of n
\* characters is {"imageBase64":"..."}.
BodyLimit == 8 * 1024 * 1024
BodyBytes(imageLen) == imageLen + 18
ParserRejects(bytes) == bytes > BodyLimit

\* imageBase64 && imageBase64.length > 7_000_000
ImageCeiling == 7000000
ImageTooLargeTypo(imageLen) == imageLen > 10 * ImageCeiling
ImageTooLarge(imageLen) == imageLen > 0 /\ imageLen > ImageCeiling

\* Request bodies.
AskModes == {"default", "dadjokes"}
HistoryTexts == {<<"h","a">>, <<"?">>, JOKE_STUCK, MISSING_KEY}
JokeHistories ==
    {<<>>} \cup {<<a>> : a \in HistoryTexts}
           \cup {<<a, b>> : a \in HistoryTexts, b \in HistoryTexts}
ImageLengths == {0, ImageCeiling, ImageCeiling + 1, BodyLimit}

\* What the vendor's completion can hold.
Completions == {<<"H","a","!">>, <<" ","h","a">>, <<"H","o">>, <<"?","!">>, <<" ">>}

NoPost ==
    [pc |-> "idle", route |-> "", mode |-> "", jokeHistory |-> <<>>, imageLen |-> 0,
     attempt |-> 0, calls |-> 0, pushed |-> 0, genFailure |-> "none",
     genAllRepeat |-> TRUE, genAnyBlank |-> FALSE,
     status |-> 0, body |-> "none", answer |-> <<>>, ttsId |-> <<>>, caught |-> "none"]

\* The tail of both handlers: cacheTtsPayload({ text: answer, mode }), then
\* res.json({ answer, ttsUrl }).
Answered(p, answer, r) ==
    /\ Cached([text |-> answer,
               mode |-> IF p.route = "homework" THEN "homework" ELSE p.mode], r)
    /\ post' = [p EXCEPT !.pc = "done", !.status = 200, !.body = "json",
                         !.answer = answer, !.ttsId = makeId(r, now)]

\* The handler's catch: res.status(500).json({ error: ... }).
Crashed(p, failure) ==
    /\ post' = [p EXCEPT !.pc = "done", !.status = 500, !.body = "json",
                         !.genFailure = failure, !.caught = "handler"]
    /\ UNCHANGED <<TTS_CACHE, issued>>

\* The joke loop of getDadAnswer when callOpenAIChat answers without the
\* network (no OPENAI_API_KEY): attempt after attempt gets the same text.
RECURSIVE JokeWithoutKey(_, _)
JokeWithoutKey(p, attempt) ==
    IF ~LoopContinues(attempt) THEN [p EXCEPT !.answer = JOKE_STUCK]
    ELSE LET joke == OrText(Trim(MISSING_KEY), JOKE_GLITCH) IN
         IF ~isRepeatedJoke(joke, p.jokeHistory)
         THEN [p EXCEPT !.attempt = attempt, !.answer = joke]
         ELSE JokeWithoutKey([p EXCEPT !.pushed = @ + 1], attempt + 1)

\* getDadAnswer / getHomeworkHelp resume with r.text = text from the call
\* they awaited.
Resumed(p, text, r) ==
    IF p.route = "homework"
    THEN Answered(p, OrText(Trim(text), HOMEWORK_RETAKE), r)
    ELSE IF p.mode # "dadjokes"
    THEN Answered(p, text, r)
    ELSE LET joke == OrText(Trim(text), JOKE_GLITCH) IN
         IF ~isRepeatedJoke(joke, p.jokeHistory)
         THEN Answered(p, joke, r)
         ELSE LET q == [p EXCEPT !.pushed = @ + 1, !.attempt = @ + 1] IN
              IF LoopContinues(q.attempt)
              THEN \* the next callOpenAIChat issues its fetch
                   /\ post' = [q EXCEPT !.pc = "chat", !.calls = @ + 1]
                   /\ UNCHANGED <<TTS_CACHE, issued>>
              ELSE Answered(q, JOKE_STUCK, r)

\* POST /ask-dad up to its first await.
PostAskDad(mode, jokeHistory, r) ==
    /\ post.pc = "idle"
    /\ LET p == [NoPost EXCEPT !.route = "ask", !.mode = mode,
                               !.jokeHistory = jokeHistory, !.attempt = 1]
       IN  IF env.openai
           THEN /\ post' = [p EXCEPT !.pc = "chat", !.calls = 1]
                /\ UNCHANGED <<TTS_CACHE, issued>>
           ELSE IF mode = "dadjokes"
           THEN LET q == JokeWithoutKey(p, 1) IN Answered(q, q.answer, r)
           ELSE Answered(p, MISSING_KEY, r)
    /\ UNCHANGED <<now, env, lastSweep, req, speech>>

\* POST /homework-help up to its first await, behind express.json.
PostHomeworkHelp(imageLen, r) ==
    /\ post.pc = "idle"
    /\ LET p == [NoPost EXCEPT !.route = "homework", !.mode = "homework",
                               !.imageLen = imageLen, !.attempt = 1]
       IN  IF ParserRejects(BodyBytes(imageLen))
           THEN \* express.json fails the request: the handler never runs
                /\ post' = [p EXCEPT !.pc = "done", !.status = 413, !.body = "html",
                                     !.caught = "framework"]
                /\ UNCHANGED <<TTS_CACHE, issued>>
           ELSE IF ImageTooLarge(imageLen)
           THEN /\ post' = [p EXCEPT !.pc = "done", !.status = 400, !.body = "json"]
                /\ UNCHANGED <<TTS_CACHE, issued>>
           ELSE IF env.openai
           THEN /\ post' = [p EXCEPT !.pc = "chat", !.calls = 1]
                /\ UNCHANGED <<TTS_CACHE, issued>>
           ELSE Resumed(p, MISSING_KEY, r)
    /\ UNCHANGED <<now, env, lastSweep, req, speech>>

\* await fetch(...) of callOpenAIChat / callOpenAIResponses settles.
ChatFetchSettles ==
    /\ post.pc = "chat"
    /\ \/ \* fetch rejects: nothing catches it before the handler's catch
          Crashed(post, "network")
       \/ \* !r.ok
          /\ post' = [post EXCEPT !.pc = "chatErrText", !.genFailure = "status",
                                  !.genAllRepeat = FALSE]
          /\ UNCHANGED <<TTS_CACHE, issued>>
       \/ /\ post' = [post EXCEPT !.pc = "chatJson"]
          /\ UNCHANGED <<TTS_CACHE, issued>>
    /\ UNCHANGED <<now, env, lastSweep, req, speech>>

\* await r.text() settles, after a non-success status.
ChatErrTextSettles(r) ==
    /\ post.pc = "chatErrText"
    /\ \/ Resumed(post, IF post.route = "homework" THEN HOMEWORK_BUSY ELSE CHAT_BUSY, r)
       \/ Crashed(post, "status")
    /\ UNCHANGED <<now, env, lastSweep, req, speech>>

\* await r.json() settles: the completion holds the text c.
ChatJsonSettles(c, r) ==
    /\ post.pc = "chatJson"
    /\ \/ LET p == [post EXCEPT
                        !.genAllRepeat = @ /\ isRepeatedJoke(c, post.jokeHistory),
                        !.genAnyBlank = @ \/ Trim(c) = <<>>]
              text == OrText(Trim(c),
                             IF post.route = "homework" THEN HOMEWORK_UNREAD
                             ELSE CHAT_BLANK)
          IN  Resumed(p, text, r)
       \/ Crashed(post, "body")
    /\ UNCHANGED <<now, env, lastSweep, req, speech>>

PostInit ==
    /\ now = Epoch
    /\ env \in [openai : BOOLEAN, eleven : {TRUE}]
    /\ TTS_CACHE = <<>>
    /\ issued = <<>>
    /\ lastSweep = NoSweep
    /\ req = NoReq
    /\ post = NoPost
    /\ speech = NoSpeech

PostNext ==
    \/ \E m \in AskModes, h \in JokeHistories, r \in RandomStrings : PostAskDad(m, h, r)
    \/ \E n \in ImageLengths, r \in RandomStrings : PostHomeworkHelp(n, r)
    \/ ChatFetchSettles
    \/ \E r \in RandomStrings : ChatErrTextSettles(r)
    \/ \E c \in Completions, r \in RandomStrings : ChatJsonSettles(c, r)

PostSpec == PostInit /\ [][PostNext]_vars

-----------------------------------------------------------------------------
(* The cache and the streaming endpoint                                    *)

Init ==
    /\ now = Epoch
    /\ env \in [openai : {TRUE}, eleven : BOOLEAN]
    /\ TTS_CACHE = <<>>
    /\ issued = <<>>
    /\ lastSweep = NoSweep
    /\ req = NoReq
    /\ post = NoPost
    /\ speech = NoSpeech

Next ==
    \/ \E p \in Payloads, r \in RandomStrings : cacheTtsPayload(p, r)
    \/ Sweep
    \/ Tick
    \/ \E id \in RequestIds : GetTtsStream(id)
    \/ FetchSettles
    \/ ErrTextSettles
    \/ StreamSettles

Spec == Init /\ [][Next]_vars

\* The same program under the scheduling the liveness of the sweep rests on:
\* time advances, and the setInterval timer keeps firing.
LiveStore(p, r) == Len(issued) < MaxLiveStores /\ cacheTtsPayload(p, r)

LiveNext ==
    \/ \E p \in Payloads, r \in RandomStrings : LiveStore(p, r)
    \/ Sweep
    \/ Tick
    \/ \E id \in RequestIds : GetTtsStream(id)
    \/ FetchSettles
    \/ ErrTextSettles
    \/ StreamSettles

LiveSpec == Init /\ [][LiveNext]_vars /\ WF_vars(Tick) /\ WF_vars(Sweep)

\* The speech text shaping on its own: a text over Alphabet is shaped, and the
\* result is shaped once more.
ShapeInit ==
    /\ now = Epoch
    /\ env = [openai |-> TRUE, eleven |-> TRUE]
    /\ TTS_CACHE = <<>>
    /\ issued = <<>>
    /\ lastSweep = NoSweep
    /\ req = NoReq
    /\ post = NoPost
    /\ speech \in {[NoSpeech EXCEPT !.pc = "input", !.variant = v, !.input = s] :
                        v \in Variants, s \in Texts}

ShapeNext == ShapeOnce \/ ShapeAgain

ShapeSpec == ShapeInit /\ [][ShapeNext]_vars

-----------------------------------------------------------------------------
(* Properties of the cache and the streaming endpoint                      *)

Stores == 1..Len(issued)
Expiry(i) == issued[i].at + TTS_TTL_MS
LastInstant == Epoch + MaxHalves * HalfTtl
AllIds ==
    {makeId(r, Epoch + k * HalfTtl) : r \in RandomStrings, k \in 0..MaxHalves}

\* C1: a lookup of an entry whose expiry has passed (now >= expiresAt) is a
\* miss, swept or not: the response is 404 and no speech request is started.
C1_ExpiredLookupMisses ==
    req.found = "expired" => (req.status = 404 /\ req.speechRequests = 0)

\* C2: a record stored at T is retrievable at every time before T + TTL: its
\* id is in the cache and still resolves to that record, whatever sweeps,
\* lookups and later stores have run.
C2_RetrievableUntilExpiry ==
    \A i \in Stores :
        now < Expiry(i) =>
            /\ LookupHit(TTS_CACHE, issued[i].id, now)
            /\ TTS_CACHE[issued[i].id].payload = issued[i].payload

\* C3 as claimed: once a sweep has run at time s, no entry whose expiresAt <= s
\* (expiresAt = s included) is retrievable.
C3_SweepRemovesAtExpiry ==
    \A id \in DOMAIN TTS_CACHE : TTS_CACHE[id].expiresAt > lastSweep

\* C3 as amended: once a sweep has run at time s, no entry whose expiresAt < s
\* is retrievable, and every entry that is gone had expiresAt < s for a sweep
\* time s: an entry whose expiresAt equals the sweep time survives that sweep.
C3_SweepRemovesPastExpiry ==
    /\ \A id \in DOMAIN TTS_CACHE : TTS_CACHE[id].expiresAt >= lastSweep
    /\ \A i \in Stores :
        ~LookupHit(TTS_CACHE, issued[i].id, now) =>
            (lastSweep # NoSweep /\ Expiry(i) < lastSweep)

\* One sweep has removed an entry past its expiry and kept another whose
\* expiresAt is the sweep time itself.
C3_Witness ==
    /\ \E id \in DOMAIN TTS_CACHE : TTS_CACHE[id].expiresAt = lastSweep
    /\ \E i \in Stores : issued[i].id \notin DOMAIN TTS_CACHE

\* C4: the ids cacheTtsPayload has returned are pairwise distinct.
C4_TokensDistinct ==
    \A i, j \in Stores : i # j => issued[i].id # issued[j].id

\* C5: every hit on an id returns the text and mode of the record that was
\* stored when the id was issued: no later store updates the entry in place.
C5_HitReturnsStoredRecord ==
    \A i \in Stores :
        (req.found \in {"live", "expired"} /\ req.id = issued[i].id) =>
            (req.text = issued[i].payload.text /\ req.mode = issued[i].payload.mode)

\* C6: while the sweep keeps firing and time advances past its expiry, every
\* entry in TTS_CACHE is eventually no longer there.
C6_EventuallyRemoved ==
    \A id \in AllIds :
        (id \in DOMAIN TTS_CACHE /\ TTS_CACHE[id].expiresAt < LastInstant)
            ~> (id \notin DOMAIN TTS_CACHE)

\* An entry has been removed while a request is being streamed.
C6_Witness ==
    /\ \E i \in Stores : issued[i].id \notin DOMAIN TTS_CACHE
    /\ req.pc = "streaming"

\* C9 (GET /tts-stream/:id): every failure raised while the request is handled
\* is caught and the request receives a response.
C9_NoFailureEscapes ==
    req.pc = "done" => (req.caught # "uncaught" /\ req.ended)

-----------------------------------------------------------------------------
(* Properties of the POST handlers                                         *)

JokeAnswered ==
    post.pc = "done" /\ post.route = "ask" /\ post.mode = "dadjokes" /\ post.status = 200

\* Every generation call so far returned text whose normalized form is that
\* of a history entry.
GeneratorRepeats == post.calls >= 1 /\ post.genAllRepeat

\* C7 as claimed: in dadjokes mode, when the generator returns text
\* normalizing to a history entry on every call, getDadAnswer makes 4 calls
\* and returns the canned fallback; it never returns text whose normalized
\* form equals a history entry and never makes more than 4 calls.
C7_JokeRepeatAvoidance ==
    /\ post.calls <= JokeAttempts
    /\ (JokeAnswered /\ GeneratorRepeats) =>
        /\ post.calls = JokeAttempts
        /\ post.answer = JOKE_STUCK
        /\ ~isRepeatedJoke(post.answer, post.jokeHistory)

\* C7 as amended: getDadAnswer never makes more than 4 generation calls and
\* call k + 1 carries k amended instructions; when every call returns
\* non-blank text normalizing to a history entry it makes 4 calls and returns
\* the canned fallback; a joke returned from one of the attempts never
\* normalizes to a history entry, and after the last attempt the canned
\* fallback is returned whether or not the history holds it.
C7_JokeRetryBudget ==
    /\ post.calls <= JokeAttempts
    /\ (post.pc = "chat" /\ post.mode = "dadjokes") => post.pushed = post.calls - 1
    /\ JokeAnswered =>
        /\ (GeneratorRepeats /\ ~post.genAnyBlank) =>
            (post.calls = JokeAttempts /\ post.answer = JOKE_STUCK)
        /\ post.pushed < JokeAttempts =>
            ~isRepeatedJoke(post.answer, post.jokeHistory)
        /\ post.pushed = JokeAttempts => post.answer = JOKE_STUCK

\* The generator repeated a history entry four times and the canned fallback
\* came back, although the history holds the fallback too.
C7_Witness ==
    /\ JokeAnswered /\ GeneratorRepeats /\ ~post.genAnyBlank
    /\ post.calls = JokeAttempts /\ post.pushed = JokeAttempts
    /\ post.answer = JOKE_STUCK
    /\ isRepeatedJoke(JOKE_STUCK, post.jokeHistory)

FallbackTexts ==
    {CHAT_BUSY, CHAT_BLANK, JOKE_GLITCH, JOKE_STUCK, HOMEWORK_BUSY, HOMEWORK_UNREAD,
     HOMEWORK_RETAKE}

\* C8: after an upstream generation failure (an error status, a failed call)
\* the request still completes with a success status, a fallback text as the
\* answer and a ttsUrl.
C8_GenerationFailureDegrades ==
    (post.pc = "done" /\ post.genFailure # "none") =>
        /\ post.status = 200
        /\ post.answer \in FallbackTexts
        /\ post.ttsId # <<>>

\* C10: POST /homework-help with an imageBase64 longer than 7,000,000
\* characters ends at once with a 4xx status and a reason; no text-generation
\* request is issued and no cache entry is created.
C10_OversizedImageRejected ==
    (post.route = "homework" /\ post.imageLen > ImageCeiling) =>
        /\ post.pc = "done"
        /\ post.status \in 400..499
        /\ post.body \in {"json", "html"}
        /\ post.calls = 0
        /\ TTS_CACHE = <<>> /\ issued = <<>>

\* The handler itself has refused an image one character over the ceiling.
C10_Witness ==
    /\ post.route = "homework" /\ post.imageLen = ImageCeiling + 1
    /\ post.status = 400 /\ post.body = "json" /\ post.calls = 0

-----------------------------------------------------------------------------
(* Properties of missing credentials and of the relay's failures           *)

ErrorStatus == 400..599

\* C11: a missing credential is found before any network call. Without the
\* ElevenLabs credentials a lookup that hits ends at once in an error response
\* and no speech request; without OPENAI_API_KEY no generation request is
\* issued on any path, every attempt of the joke loop included, and the
\* request fails at once: it ends in the same step with an error status.
C11_MissingCredentialsFailFast ==
    /\ (~env.eleven /\ req.found \in {"live", "expired"}) =>
        /\ req.pc = "done" /\ req.ended
        /\ req.status \in ErrorStatus /\ req.body = "json"
        /\ req.speechRequests = 0
    /\ ~env.openai =>
        /\ post.calls = 0
        /\ post.pc \in {"idle", "done"}
        /\ post.pc = "done" => post.status \in ErrorStatus

\* The speech request was not established, or the vendor answered with a
\* non-success status (whose body the relay then reads).
RelayFailed == req.failure \in {"fetch", "vendorStatus", "errText"}

\* C12: when the speech request fails to establish or the vendor answers
\* with a non-success status, the caller receives one error response with an
\* HTTP error status and a JSON body; no audio headers were set, no byte of
\* the vendor body is forwarded and the speech request was issued once.
C12_RelayFailureIsCleanError ==
    /\ req.speechRequests <= 1
    /\ RelayFailed =>
        /\ req.speechRequests = 1
        /\ ~req.audioHeaders
        /\ req.body # "audio"
    /\ (RelayFailed /\ req.pc = "done") =>
        /\ req.ended
        /\ req.status \in ErrorStatus
        /\ req.body = "json"

\* C13 as claimed: once the audio headers are set, the response is completed
\* only when the vendor stream ends or errors, and every failure after that
\* point (a stream error, a failure to convert or pipe the vendor body) ends
\* the response with no error status set and no error body written.
C13_NoErrorAfterAudioHeaders ==
    /\ req.pc = "streaming" => ~req.ended
    /\ (req.audioHeaders /\ req.pc = "done") => req.ended
    /\ req.audioHeaders => (req.status \notin ErrorStatus /\ req.body # "json")

\* C13 as amended: while the vendor body is piped the response stays open,
\* and it is completed only when the stream ends or errors; a stream error
\* mid-flight ends the response with no error status and no error body; a
\* failure to convert or pipe the vendor body, thrown after the audio headers
\* were set and before any byte was sent, is answered with status 500 and a
\* JSON error body.
C13_StreamFailureHandling ==
    /\ req.pc = "streaming" =>
        (req.audioHeaders /\ ~req.ended /\ req.status = 0 /\ req.body = "none")
    /\ (req.audioHeaders /\ req.pc = "done") =>
        (req.ended /\ req.failure \in {"none", "stream", "fromWeb"})
    /\ (req.pc = "done" /\ req.failure = "stream") =>
        (req.audioHeaders /\ req.status \notin ErrorStatus /\ req.body = "audio")
    /\ (req.pc = "done" /\ req.failure = "fromWeb") =>
        (req.audioHeaders /\ req.status = 500 /\ req.body = "json")

\* The vendor stream of a live entry failed mid-flight and the response was
\* ended as it stood.
C13_Witness ==
    /\ req.pc = "done" /\ req.found = "live" /\ req.failure = "stream"
    /\ req.audioHeaders /\ req.ended /\ req.status = 200 /\ req.body = "audio"

\* The request has looked up its entry and its response is still open.
InFlight == req.pc \in {"fetch", "errText", "streaming"}

\* Every way the pending await of the request can settle is open to it.
OutcomesOpen ==
    /\ req.pc = "fetch" =>
        /\ \A f \in {"fetch", "vendorStatus", "fromWeb"} :
              ENABLED (FetchSettles /\ req'.failure = f)
        /\ ENABLED (FetchSettles /\ req'.pc = "streaming")
    /\ req.pc = "errText" =>
        \A c \in {"inner", "uncaught"} : ENABLED (ErrTextSettles /\ req'.caught = c)
    /\ req.pc = "streaming" =>
        \A f \in {"none", "stream"} : ENABLED (StreamSettles /\ req'.failure = f)

\* C15: a streaming request reads the cache once, before streaming begins,
\* and never writes it: no step of the request changes TTS_CACHE; once the
\* entry is looked up the id, text and mode of the request stay as read; a
\* sweep or a store in between, a sweep deleting that very entry included,
\* leaves the request as it is, with every outcome of the stream still open.
C15_CacheReadOnceNeverWritten ==
    /\ []OutcomesOpen
    /\ [][/\ req' # req => TTS_CACHE' = TTS_CACHE
          /\ InFlight =>
                (req'.id = req.id /\ req'.text = req.text /\ req'.mode = req.mode
                    /\ req'.found = req.found)
          /\ (TTS_CACHE' # TTS_CACHE \/ lastSweep' # lastSweep) => req' = req]_vars

\* The entry of a request was live at its lookup and a sweep has deleted it
\* while the audio is streamed: the request still carries the stored text.
C15_Witness ==
    /\ req.pc = "streaming" /\ req.found = "live"
    /\ req.id \notin DOMAIN TTS_CACHE
    /\ \E i \in Stores : issued[i].id = req.id /\ issued[i].payload.text = req.text

-----------------------------------------------------------------------------
(* Properties of the speech text shaping                                   *)

\* A text with no special symbols: letters and white space only.
IsPlainChar(c) == c \in Range(LowerCase) \cup Range(UpperCase) \/ IsSpace(c)
IsPlain(s) == \A i \in 1..Len(s) : IsPlainChar(s[i])
\* The characters of a text that are not white space, in order.
IsInk(c) == ~IsSpace(c)
Ink(s) == SelectSeq(s, IsInk)

\* C14: shaping an already shaped text substitutes nothing again,
\* shape(shape(s)) = shape(s) for every text s over Alphabet, and a text with
\* no special symbols comes back with only its white space and length
\* normalized: its other characters are unchanged.
C14_ShapingIdempotent ==
    /\ speech.pc = "twice" => speech.twice = speech.once
    /\ (speech.pc \in {"once", "twice"} /\ IsPlain(speech.input)) =>
        Ink(speech.once) = Ink(speech.input)

====
